---- MODULE Spec2Model ----
(***************************************************************************)
(* Metric jobs of thoth metrics-exporter: DBMetrics (jobs/db.py) and       *)
(* SolverMetrics (jobs/solver.py).                                         *)
(*                                                                         *)
(* A job invocation is one action.  The job body is translated into the    *)
(* sequence of operations it performs, in program order (external calls    *)
(* with their results, metric writes, log records, the closing return or   *)
(* raise); an exception cuts the sequence where it is raised.  The state   *)
(* after the invocation is the state before it with the operations of the  *)
(* sequence applied in order.                                              *)
(***************************************************************************)
EXTENDS Integers, Sequences, FiniteSets, TLC

VARIABLES
    now,            \* wall clock, seconds since the epoch (UTC)
    tz,             \* UTC offset of the process's local time zone, seconds
    SCRAPE_COUNT,   \* DBMetrics._SCRAPE_COUNT
    registry,       \* prometheus_client registry: metric name -> (label -> value)
    prom,           \* metrics backend: metric name -> stored samples (0 or 1)
    call,           \* the last job invocation: its entry state and operations
    evaluated_at,   \* history: instant of the last completed bloat evaluation
    unsolved_history \* history, kept where the delta job is observed: the last
                    \* unsolved count computed, and by how much the computed
                    \* counts shrank in this process

vars == <<now, tz, SCRAPE_COUNT, registry, prom, call, evaluated_at, unsolved_history>>

-----------------------------------------------------------------------------
(* Bounds *)

MaxDays == 8
MaxScrapeCount == 2
MaxBloat == 1
MaxCount == 1
MaxChange == 2

-----------------------------------------------------------------------------
(* Time *)

BLOAT_DATA_SCRAPE_INTERVAL_DAYS == 7

SecondsPerDay == 86400

\* timedelta(days=d).total_seconds()
total_seconds(d) == d * SecondsPerDay

\* The instants the clock takes: day 0, day 1, and the days from the interval on.
Instants ==
    { total_seconds(d) :
        d \in {0, 1} \cup (BLOAT_DATA_SCRAPE_INTERVAL_DAYS .. MaxDays) }

\* UTC offsets of the local zone the process may run in.
TZOffsets == {-3600, 0, 3600}

\* datetime.fromtimestamp(t): the naive local wall clock of epoch t, in seconds.
fromtimestamp(t, off) == t + off

\* datetime.utcnow(): the naive UTC wall clock of the instant t.
utcnow(t) == t

\* naive.timestamp(): a naive datetime is read as local time.
timestamp(naive, off) == naive - off

-----------------------------------------------------------------------------
(* Operations of a job body *)

Op(o, n, l, v, a) == [op |-> o, name |-> n, label |-> l, value |-> v, aux |-> a]

\* An external call and what it answered (kind, with up to two numbers).
Call(fn, arg) == Op("call", fn, arg, 0, 0)

Result(fn, kind, v, a) == Op("result", fn, kind, v, a)

\* metric.labels(l).set(v), metric.set(v) with l = NoLabel
Set(metric, l, v) == Op("set", metric, l, v, 0)

\* metric.inc(v)
Inc(metric, l, v) == Op("inc", metric, l, v, 0)

\* _LOGGER.<level>(what)
Log(level, what) == Op("log", level, what, 0, 0)

\* cls.<attr> += 1
AttrInc(attr) == Op("attr_inc", attr, "", 1, 0)

\* The body returns (explicitly or by reaching its end).
Return == Op("return", "", "", 0, 0)

\* The exception of call fn leaves the body.
Raise(fn) == Op("raise", fn, "", 0, 0)

\* The label of a metric without labels.
NoLabel == ""

UnlabelledMetrics ==
    { "graphdb_connection_error_status",
      "graphdb_last_evaluation_bloat_data",
      "graphdb_is_corrupted",
      "graphdb_total_number_solvers",
      "graphdb_total_number_unsolved_python_packages",
      "graphdb_unsolved_python_package_versions_change" }

LabelledMetrics ==
    { "graphdb_pct_bloat_data_table",
      "graphdb_mb_bloat_data_table",
      "graphdb_total_number_unsolved_python_packages_per_solver",
      "graphdb_total_number_solved_python_packages",
      "graphdb_total_python_packages_solved_with_no_error",
      "graphdb_total_python_packages_with_solver_error",
      "graphdb_total_python_packages_with_solver_error_unparseable",
      "graphdb_total_python_packages_with_solver_error_unsolvable" }

MetricNames == UnlabelledMetrics \cup LabelledMetrics

\* A fresh registry: a metric without labels is exposed as 0, a labelled one
\* has no child until .labels(...) is called.
EmptyChildren == [l \in {} |-> 0]

FreshRegistry ==
    [m \in MetricNames |->
        IF m \in UnlabelledMetrics THEN [l \in {NoLabel} |-> 0] ELSE EmptyChildren]

Put(children, l, v) ==
    [x \in (DOMAIN children) \cup {l} |-> IF x = l THEN v ELSE children[x]]

Child(children, l) == IF l \in DOMAIN children THEN children[l] ELSE 0

\* One operation applied to the registry.
ApplyOp(reg, o) ==
    IF o.op = "set"
    THEN [reg EXCEPT ![o.name] = Put(@, o.label, o.value)]
    ELSE IF o.op = "inc"
    THEN [reg EXCEPT ![o.name] = Put(@, o.label, Child(@, o.label) + o.value)]
    ELSE reg

\* The registry after the first n operations of an invocation.
RECURSIVE ApplyPrefix(_, _, _)
ApplyPrefix(reg, ops, n) ==
    IF n = 0 THEN reg
    ELSE ApplyOp(ApplyPrefix(reg, ops, n - 1), ops[n])

\* The registry after the invocation.
ApplyOps(reg, ops) == ApplyPrefix(reg, ops, Len(ops))

\* The registries a scraper may read while the invocation runs: the statements
\* of a job body are not atomic, the registry is exposed after each of them.
ScraperViews(reg, ops) == { ApplyPrefix(reg, ops, n) : n \in 0..Len(ops) }

RECURSIVE CountOps(_, _)
CountOps(ops, kind) ==
    IF ops = <<>> THEN 0
    ELSE (IF Head(ops).op = kind THEN 1 ELSE 0) + CountOps(Tail(ops), kind)

\* Whether the invocation let an exception out.
Raised(ops) == ops # <<>> /\ ops[Len(ops)].op = "raise"

\* The published value of a metric child (a scraper's view).
Value(reg, m, l) == reg[m][l]

-----------------------------------------------------------------------------
(* External collaborators: what a call may answer *)

\* A call's answer: it raised, or it returned val.
Answer(raised, val) == [raised |-> raised, val |-> val]

\* Prometheus sample of an instant query: value = [timestamp, value].
Sample(ts, v) == [ts |-> ts, value |-> v]

-----------------------------------------------------------------------------
(* DBMetrics.get_bloat_data *)

\* Rows cls.graph().get_bloat_data() may return.
BloatRow(t, p, m) == [tablename |-> t, pct_bloat |-> p, mb_bloat |-> m]

TableNames == {"python_package_version"}

BloatRows == { BloatRow(t, p, m) : t \in TableNames, p \in 0..MaxBloat, m \in 0..MaxBloat }

BloatAnswers ==
    { Answer(TRUE, <<>>), Answer(FALSE, <<>>) }
        \cup { Answer(FALSE, <<r>>) : r \in BloatRows }

\* What Configuration.PROM.get_current_metric_value(...) may answer for a
\* metric whose stored samples are stored: it raises, or returns them.
MetricAnswers(stored) == { Answer(TRUE, <<>>), Answer(FALSE, stored) }

\* for table_data in bloat_data: the two gauge writes of every row, in order.
RECURSIVE BloatWrites(_)
BloatWrites(rows) ==
    IF rows = <<>> THEN <<>>
    ELSE << Set("graphdb_pct_bloat_data_table", Head(rows).tablename, Head(rows).pct_bloat),
            Log("debug", "thoth_graphdb_pct_bloat_data_table"),
            Set("graphdb_mb_bloat_data_table", Head(rows).tablename, Head(rows).mb_bloat),
            Log("debug", "thoth_graphdb_mb_bloat_data_table") >>
         \o BloatWrites(Tail(rows))

\* else branch of `if bloat_data`: the sentinel children.
NoBloatWrites ==
    << Set("graphdb_pct_bloat_data_table", "No table pct", 0),
       Log("debug", "thoth_graphdb_pct_bloat_data_table is empty"),
       Set("graphdb_mb_bloat_data_table", "No table mb", 0),
       Log("debug", "thoth_graphdb_mb_bloat_data_table is empty") >>

\* The value written to the evaluation-timestamp gauge at instant t.
EvaluationTimestamp(t, off) == timestamp(utcnow(t), off)

\* Mutant of BloatEvaluation: _SCRAPE_COUNT is incremented before the bloat query.
BloatEvaluation_CountsFirst(t, off, bloat) ==
    << AttrInc("_SCRAPE_COUNT"), Call("graph.get_bloat_data", "") >>
    \o IF bloat.raised
       THEN << Raise("graph.get_bloat_data") >>
       ELSE << Result("graph.get_bloat_data", "rows", Len(bloat.val), 0) >>
            \o (IF bloat.val # <<>> THEN BloatWrites(bloat.val) ELSE NoBloatWrites)
            \o << Set("graphdb_last_evaluation_bloat_data", NoLabel, EvaluationTimestamp(t, off)),
                  Log("debug", "thoth_graphdb_last_evaluation_bloat_data"),
                  Log("info", "Next bloat data evaluation"),
                  Return >>

\* Lines 77-99: the expensive evaluation, from the bloat query on.
BloatEvaluation(t, off, bloat) ==
    << Call("graph.get_bloat_data", "") >>
    \o IF bloat.raised
       THEN << Raise("graph.get_bloat_data") >>
       ELSE << Result("graph.get_bloat_data", "rows", Len(bloat.val), 0) >>
            \o (IF bloat.val # <<>> THEN BloatWrites(bloat.val) ELSE NoBloatWrites)
            \o << Set("graphdb_last_evaluation_bloat_data", NoLabel, EvaluationTimestamp(t, off)),
                  Log("debug", "thoth_graphdb_last_evaluation_bloat_data"),
                  AttrInc("_SCRAPE_COUNT"),
                  Log("info", "Next bloat data evaluation"),
                  Return >>

\* (last_prometheus_scrape - last_evaluation).total_seconds() of a sample.
Elapsed(sample, off) == fromtimestamp(sample.ts, off) - fromtimestamp(sample.value, off)

\* Mutant of IntervalNotElapsed: the boundary elapsed = interval counts as elapsed.
IntervalNotElapsed_BoundaryFires(sample, off) ==
    ~ (Elapsed(sample, off) >= total_seconds(BLOAT_DATA_SCRAPE_INTERVAL_DAYS))

\* Lines 71-74: the condition under which the invocation returns early.
IntervalNotElapsed(sample, off) ==
    ~ (Elapsed(sample, off) > total_seconds(BLOAT_DATA_SCRAPE_INTERVAL_DAYS))

\* metric_name: the name under which the backend is asked.
BloatMetric == "thoth_graphdb_last_evaluation_bloat_data"

\* Mutant of Throttle: an empty read-back is taken as "interval elapsed".
Throttle_EmptyFires(t, off, metric, bloat) ==
    << Call("prom.get_current_metric_value", BloatMetric) >>
    \o IF metric.raised
       THEN << Raise("prom.get_current_metric_value") >>
       ELSE IF metric.val = <<>>
       THEN << Result("prom.get_current_metric_value", "empty", 0, 0) >>
            \o BloatEvaluation(t, off, bloat)
       ELSE << Result("prom.get_current_metric_value", "sample",
                      metric.val[1].value, metric.val[1].ts) >>
            \o IF IntervalNotElapsed(metric.val[1], off)
               THEN << Return >>
               ELSE BloatEvaluation(t, off, bloat)

\* Lines 58-75: the throttle, entered when _SCRAPE_COUNT != 0.
Throttle(t, off, metric, bloat) ==
    << Call("prom.get_current_metric_value", BloatMetric) >>
    \o IF metric.raised
       THEN << Raise("prom.get_current_metric_value") >>
       ELSE IF metric.val = <<>>
       THEN << Result("prom.get_current_metric_value", "empty", 0, 0),
               Log("warning", "No metrics identified from Prometheus"),
               Return >>
       ELSE << Result("prom.get_current_metric_value", "sample",
                      metric.val[1].value, metric.val[1].ts) >>
            \o IF IntervalNotElapsed(metric.val[1], off)
               THEN << Return >>
               ELSE BloatEvaluation(t, off, bloat)

\* Mutant of get_bloat_data: the first invocation is throttled like the others.
get_bloat_data_NoBootstrap(count, t, off, metric, bloat) ==
    Throttle(t, off, metric, bloat)

\* Mutant of get_bloat_data: the throttle is entered when _SCRAPE_COUNT == 0.
get_bloat_data_GuardInverted(count, t, off, metric, bloat) ==
    IF count = 0
    THEN Throttle(t, off, metric, bloat)
    ELSE BloatEvaluation(t, off, bloat)

\* The operations of one invocation of get_bloat_data.
get_bloat_data(count, t, off, metric, bloat) ==
    IF count # 0
    THEN Throttle(t, off, metric, bloat)
    ELSE BloatEvaluation(t, off, bloat)

\* What the invocation saw of the outside: its external calls and their outcomes.
IsExternal(o) == o.op \in {"call", "result", "item", "raise"}

Observed(ops) == SelectSeq(ops, IsExternal)

\* The jobs that read neither class state nor the metrics backend: what they
\* publish depends on the answers of the graph and of the cluster only.
StatelessJobs ==
    { "get_graphdb_connection_error_status",
      "set_is_corrupted_metric",
      "get_solver_count",
      "get_python_packages_solved_count_per_solver",
      "get_python_packages_solver_error_count_per_solver" }

\* The record kept of an invocation: the job, its entry state, its operations.
\* For a job with state (and a restart) turn alternates with every invocation,
\* so that the record of an invocation differs from the record before it.  For
\* a stateless job repeat tells that the invocation before was of the same job
\* and saw the same external data.
Invocation(job, count, t, backend, ops) ==
    [job |-> job, turn |-> IF job \in StatelessJobs THEN 0 ELSE 1 - call.turn,
     scrape_count |-> count, now |-> t,
     backend |-> backend, ops |-> ops,
     repeat |-> /\ job \in StatelessJobs
                /\ call.job = job
                /\ Observed(call.ops) = Observed(ops)]

GetBloatData ==
    /\ SCRAPE_COUNT < MaxScrapeCount
    /\ \E metric \in MetricAnswers(prom[BloatMetric]),
          bloat \in BloatAnswers :
          \E ops \in { get_bloat_data(SCRAPE_COUNT, now, tz, metric, bloat) } :
            /\ registry' = ApplyOps(registry, ops)
            /\ SCRAPE_COUNT' = SCRAPE_COUNT + CountOps(ops, "attr_inc")
            /\ call' = Invocation("get_bloat_data", SCRAPE_COUNT, now, prom, ops)
            /\ evaluated_at' = IF CountOps(ops, "attr_inc") > 0 THEN <<now>> ELSE evaluated_at
    /\ UNCHANGED <<now, tz, prom, unsolved_history>>

-----------------------------------------------------------------------------
(* SolverMetrics: the solvers and the graph queries *)

SolverNames == {"solver-fedora-31-py37", "solver-rhel-8-py36"}

\* cls.graph().parse_python_solver_name(solver_name)
parse_python_solver_name(solver_name) ==
    IF solver_name = "solver-fedora-31-py37"
    THEN [os_name |-> "fedora", os_version |-> "31", python_version |-> "3.7"]
    ELSE [os_name |-> "rhel", os_version |-> "8", python_version |-> "3.6"]

\* The argument of a graph query, as logged in the invocation record.
QueryArg(info) == info.os_name

\* The solver a graph query is about.
SolverOf(arg) == CHOOSE n \in SolverNames : QueryArg(parse_python_solver_name(n)) = arg

\* The solvers deployed in the cluster, in the order the cluster lists them.
DeployedSolvers == << "solver-fedora-31-py37", "solver-rhel-8-py36" >>

\* cls._OPENSHIFT.get_solver_names(): it raises, or lists the solvers that are
\* active, in the cluster's order.
SolverLists ==
    { <<>>, DeployedSolvers } \cup { <<a>> : a \in SolverNames }

SolverNamesAnswers == { Answer(TRUE, <<>>) } \cup { Answer(FALSE, l) : l \in SolverLists }

\* A count query of the graph: it raises, or returns a count.
CountAnswers == { Answer(TRUE, 0) } \cup { Answer(FALSE, n) : n \in 0..MaxCount }

\* The loop over names gets an answer for every solver: none of its queries raises.
LoopCompletes(names, answers) ==
    \A i \in 1..Len(names) : ~ answers[names[i]].raised

\* What the graph may answer to the queries of a loop over names, one answer
\* per solver taken from `answers`: the loop asks in order and stops at the
\* first query that raises, and the answer of a query that is not made (solver
\* not listed, or listed after the one whose query raised) is `idle`.
RECURSIVE Asked(_, _, _)
Asked(names, answers, idle) ==
    IF names = <<>> THEN { [n \in SolverNames |-> idle] }
    ELSE UNION { IF a.raised
                 THEN { [n \in SolverNames |-> IF n = Head(names) THEN a ELSE idle] }
                 ELSE { [rest EXCEPT ![Head(names)] = a] :
                          rest \in Asked(Tail(names), answers, idle) }
               : a \in answers }

\* The same for a job: no query is made when the listing raised.
GraphAnswers(solvers, answers, idle) ==
    IF solvers.raised THEN { [n \in SolverNames |-> idle] }
    ELSE Asked(solvers.val, answers, idle)

\* Lines 59 / 100 / 114: the listing that opens every per-solver job.
Listing(solvers) ==
    << Call("openshift.get_solver_names", "") >>
    \o IF solvers.raised
       THEN << Raise("openshift.get_solver_names") >>
       ELSE << Result("openshift.get_solver_names", "names", Len(solvers.val), 0) >>
            \o [i \in 1..Len(solvers.val) |->
                  Op("item", "openshift.get_solver_names", solvers.val[i], i, 0)]

-----------------------------------------------------------------------------
(* SolverMetrics.get_unsolved_python_packages_versions *)

UnsolvedMetric == "thoth_graphdb_total_number_unsolved_python_packages"

\* Mutant of UnsolvedChange: the change is not clamped.
UnsolvedChange_NoClamp(previous, current) == previous - current

\* Lines 79-85: the change of the unsolved count, never negative.
UnsolvedChange(previous, current) ==
    IF previous - current < 0 THEN 0 ELSE previous - current

\* Mutant of UnsolvedReadBack: without a previous value the job returns before
\* it sets the absolute value.
UnsolvedReadBack_ReturnsOnEmpty(total, metric) ==
    << Call("prom.get_current_metric_value", UnsolvedMetric) >>
    \o IF metric.raised
       THEN << Raise("prom.get_current_metric_value") >>
       ELSE IF metric.val # <<>>
       THEN << Result("prom.get_current_metric_value", "sample",
                      metric.val[1].value, metric.val[1].ts),
               Inc("graphdb_unsolved_python_package_versions_change", NoLabel,
                   UnsolvedChange(metric.val[1].value, total)),
               Log("debug", "graphdb_unsolved_python_package_versions_change"),
               Set("graphdb_total_number_unsolved_python_packages", NoLabel, total),
               Log("debug", "graphdb_total_number_unsolved_python_packages"),
               Return >>
       ELSE << Result("prom.get_current_metric_value", "empty", 0, 0),
               Log("warning", "No metrics identified"),
               Return >>

\* Lines 72-94, after the loop: read-back, increment, absolute value.
UnsolvedReadBack(total, metric) ==
    << Call("prom.get_current_metric_value", UnsolvedMetric) >>
    \o IF metric.raised
       THEN << Raise("prom.get_current_metric_value") >>
       ELSE (IF metric.val # <<>>
             THEN << Result("prom.get_current_metric_value", "sample",
                            metric.val[1].value, metric.val[1].ts),
                     Inc("graphdb_unsolved_python_package_versions_change", NoLabel,
                         UnsolvedChange(metric.val[1].value, total)),
                     Log("debug", "graphdb_unsolved_python_package_versions_change") >>
             ELSE << Result("prom.get_current_metric_value", "empty", 0, 0),
                     Log("warning", "No metrics identified") >>)
            \o << Set("graphdb_total_number_unsolved_python_packages", NoLabel, total),
                  Log("debug", "graphdb_total_number_unsolved_python_packages"),
                  Return >>

\* Lines 58-70: the loop over the solvers, total being the sum so far.
RECURSIVE UnsolvedLoop(_, _, _, _)
UnsolvedLoop(names, total, unsolved, metric) ==
    IF names = <<>> THEN UnsolvedReadBack(total, metric)
    ELSE LET solver_name == Head(names)
             solver_info == parse_python_solver_name(solver_name)
             count == unsolved[solver_name]
         IN << Call("graph.get_unsolved_python_package_versions_count_all",
                    QueryArg(solver_info)) >>
            \o IF count.raised
               THEN << Raise("graph.get_unsolved_python_package_versions_count_all") >>
               ELSE << Result("graph.get_unsolved_python_package_versions_count_all",
                              QueryArg(solver_info), count.val, 0),
                       Set("graphdb_total_number_unsolved_python_packages_per_solver",
                           solver_name, count.val),
                       Log("debug", "graphdb_total_number_unsolved_python_packages_per_solver") >>
                    \o UnsolvedLoop(Tail(names), total + count.val, unsolved, metric)

\* The operations of one invocation of get_unsolved_python_packages_versions.
get_unsolved_python_packages_versions(solvers, unsolved, metric) ==
    Listing(solvers)
    \o IF solvers.raised THEN <<>>
       ELSE UnsolvedLoop(solvers.val, 0, unsolved, metric)

ChangeCounter == Value(registry, "graphdb_unsolved_python_package_versions_change", NoLabel)

\* Line 70: count_unsolved_python_package_versions when the loop completes.
RECURSIVE count_unsolved_python_package_versions(_, _)
count_unsolved_python_package_versions(names, unsolved) ==
    IF names = <<>> THEN 0
    ELSE unsolved[Head(names)].val
         + count_unsolved_python_package_versions(Tail(names), unsolved)

\* The history after an invocation computed the current count c: the decrease
\* from the count computed before it (if any) is added to the shrinkage, which
\* is kept up to MaxChange, the bound of the counter it is compared with.
Shrink(h, c) ==
    LET decrease == IF h.last # <<>> /\ h.last[1] > c THEN h.last[1] - c ELSE 0
        sum == h.shrunk + decrease
    IN [last |-> <<c>>, shrunk |-> IF sum > MaxChange THEN MaxChange ELSE sum]

\* One invocation; with record, the history of the computed counts is kept.
InvokeUnsolved(record) ==
    /\ \E solvers \in SolverNamesAnswers :
       \E unsolved \in GraphAnswers(solvers, CountAnswers, Answer(FALSE, 0)),
          metric \in MetricAnswers(prom[UnsolvedMetric]) :
          \E ops \in { get_unsolved_python_packages_versions(solvers, unsolved, metric) } :
            /\ (solvers.raised \/ ~ LoopCompletes(solvers.val, unsolved))
                  => metric = Answer(FALSE, prom[UnsolvedMetric])
            /\ registry' = ApplyOps(registry, ops)
            /\ ChangeCounter' <= MaxChange
            /\ call' = Invocation("get_unsolved_python_packages_versions",
                                  SCRAPE_COUNT, now, prom, ops)
            /\ unsolved_history' =
                  IF record /\ ~ solvers.raised /\ LoopCompletes(solvers.val, unsolved)
                  THEN Shrink(unsolved_history,
                              count_unsolved_python_package_versions(solvers.val, unsolved))
                  ELSE unsolved_history
    /\ UNCHANGED <<now, tz, SCRAPE_COUNT, prom, evaluated_at>>

GetUnsolvedPythonPackagesVersions == InvokeUnsolved(FALSE)

\* The same invocation, observed: the history of the computed counts is kept.
GetUnsolvedPythonPackagesVersionsObserved == InvokeUnsolved(TRUE)

-----------------------------------------------------------------------------
(* SolverMetrics.get_python_packages_solved_count_per_solver *)

\* Lines 100-108: the loop over the solvers.
RECURSIVE SolvedLoop(_, _)
SolvedLoop(names, solved) ==
    IF names = <<>> THEN << Return >>
    ELSE LET solver_name == Head(names)
             solver_info == parse_python_solver_name(solver_name)
             count_solved == solved[solver_name]
         IN << Call("graph.get_solved_python_packages_count_all", QueryArg(solver_info)) >>
            \o IF count_solved.raised
               THEN << Raise("graph.get_solved_python_packages_count_all") >>
               ELSE << Result("graph.get_solved_python_packages_count_all",
                              QueryArg(solver_info), count_solved.val, 0),
                       Set("graphdb_total_number_solved_python_packages",
                           solver_name, count_solved.val),
                       Log("debug", "graphdb_total_number_solved_python_packages") >>
                    \o SolvedLoop(Tail(names), solved)

\* The operations of one invocation of get_python_packages_solved_count_per_solver.
get_python_packages_solved_count_per_solver(solvers, solved) ==
    Listing(solvers)
    \o IF solvers.raised THEN <<>> ELSE SolvedLoop(solvers.val, solved)

GetPythonPackagesSolvedCountPerSolver ==
    /\ \E solvers \in SolverNamesAnswers :
       \E solved \in GraphAnswers(solvers, CountAnswers, Answer(FALSE, 0)) :
          \E ops \in { get_python_packages_solved_count_per_solver(solvers, solved) } :
            /\ registry' = ApplyOps(registry, ops)
            /\ call' = Invocation("get_python_packages_solved_count_per_solver",
                                  SCRAPE_COUNT, now, prom, ops)
    /\ UNCHANGED <<now, tz, SCRAPE_COUNT, prom, evaluated_at, unsolved_history>>

-----------------------------------------------------------------------------
(* SolverMetrics.get_python_packages_solver_error_count_per_solver *)

\* The four count queries made for a solver, in program order (1: solved,
\* 2: error, 3: unparseable, 4: unsolvable): the graph method behind each and
\* the flag it is called with (0: none, 1: unparseable=True, 2: unsolvable=True).
ErrorQueryFn(k) ==
    IF k = 1 THEN "graph.get_solved_python_packages_count_all"
    ELSE "graph.get_error_solved_python_package_versions_count_all"

ErrorQueryFlag(k) == IF k = 3 THEN 1 ELSE IF k = 4 THEN 2 ELSE 0

\* The counts the four queries may return.  The solved count and the error
\* count come from different tables and may disagree; the unparseable and the
\* unsolvable count are the error query with one more filter, so neither
\* exceeds the error count.
ErrorCounts ==
    { v \in [1..4 -> 0..MaxCount] : v[3] <= v[2] /\ v[4] <= v[2] }

\* What the four queries of one solver answer: all return (val), or the query
\* number `at` raises; what the queries before it returned is never used.
ErrorAnswers ==
    { [raised |-> FALSE, at |-> 0, val |-> v] : v \in ErrorCounts }
    \cup { [raised |-> TRUE, at |-> k, val |-> [q \in 1..4 |-> 0]] : k \in 1..4 }

IdleErrorAnswer == [raised |-> FALSE, at |-> 0, val |-> [q \in 1..4 |-> 0]]

\* Lines 115-138: the queries of one solver, from query k on.
RECURSIVE ErrorQueriesFrom(_, _, _)
ErrorQueriesFrom(k, arg, answer) ==
    IF k > 4 THEN <<>>
    ELSE << Op("call", ErrorQueryFn(k), arg, 0, ErrorQueryFlag(k)) >>
         \o IF answer.raised /\ answer.at = k
            THEN << Raise(ErrorQueryFn(k)) >>
            ELSE << Op("result", ErrorQueryFn(k), arg, answer.val[k], ErrorQueryFlag(k)) >>
                 \o ErrorQueriesFrom(k + 1, arg, answer)

\* Line 140
solved_with_no_error(python_packages_solved, python_packages_solver_error) ==
    python_packages_solved - python_packages_solver_error

\* Lines 140-176: the four gauge writes of one solver.
ErrorWrites(solver_name, v) ==
    << Set("graphdb_total_python_packages_solved_with_no_error", solver_name,
           solved_with_no_error(v[1], v[2])),
       Log("debug", "graphdb_total_python_packages_solved_with_no_error"),
       Set("graphdb_total_python_packages_with_solver_error", solver_name, v[2]),
       Set("graphdb_total_python_packages_with_solver_error_unparseable", solver_name, v[3]),
       Set("graphdb_total_python_packages_with_solver_error_unsolvable", solver_name, v[4]),
       Log("debug", "graphdb_total_python_packages_with_solver_error"),
       Log("debug", "graphdb_total_python_packages_with_solver_error_unparseable"),
       Log("debug", "graphdb_total_python_packages_with_solver_error_unsolvable") >>

\* Lines 114-176: the loop over the solvers.
RECURSIVE ErrorLoop(_, _)
ErrorLoop(names, errors) ==
    IF names = <<>> THEN << Return >>
    ELSE LET solver_name == Head(names)
             solver_info == parse_python_solver_name(solver_name)
             answer == errors[solver_name]
         IN ErrorQueriesFrom(1, QueryArg(solver_info), answer)
            \o IF answer.raised THEN <<>>
               ELSE ErrorWrites(solver_name, answer.val) \o ErrorLoop(Tail(names), errors)

\* The operations of one invocation of
\* get_python_packages_solver_error_count_per_solver.
get_python_packages_solver_error_count_per_solver(solvers, errors) ==
    Listing(solvers)
    \o IF solvers.raised THEN <<>> ELSE ErrorLoop(solvers.val, errors)

GetPythonPackagesSolverErrorCountPerSolver ==
    /\ \E solvers \in SolverNamesAnswers :
       \E errors \in GraphAnswers(solvers, ErrorAnswers, IdleErrorAnswer) :
          \E ops \in { get_python_packages_solver_error_count_per_solver(solvers, errors) } :
            /\ registry' = ApplyOps(registry, ops)
            /\ call' = Invocation("get_python_packages_solver_error_count_per_solver",
                                  SCRAPE_COUNT, now, prom, ops)
    /\ UNCHANGED <<now, tz, SCRAPE_COUNT, prom, evaluated_at, unsolved_history>>

-----------------------------------------------------------------------------
(* DBMetrics.get_graphdb_connection_error_status *)

\* The probe cls.graph()._engine.execute("SELECT 1"): it raises, or returns.
ProbeAnswers == { Answer(TRUE, 0), Answer(FALSE, 1) }

\* Mutant of get_graphdb_connection_error_status: the two values are swapped.
get_graphdb_connection_error_status_Swapped(probe) ==
    << Call("graph._engine.execute", "SELECT 1") >>
    \o IF probe.raised
       THEN << Result("graph._engine.execute", "exception", 0, 0),
               Set("graphdb_connection_error_status", NoLabel, 1),
               Log("exception", "excptn"),
               Return >>
       ELSE << Result("graph._engine.execute", "ok", 0, 0),
               Set("graphdb_connection_error_status", NoLabel, 0),
               Return >>

\* Lines 46-52: try / except Exception / else.  The exception of the probe is
\* caught in the body: the gauge is set to 0 and the exception is logged.
get_graphdb_connection_error_status(probe) ==
    << Call("graph._engine.execute", "SELECT 1") >>
    \o IF probe.raised
       THEN << Result("graph._engine.execute", "exception", 0, 0),
               Set("graphdb_connection_error_status", NoLabel, 0),
               Log("exception", "excptn"),
               Return >>
       ELSE << Result("graph._engine.execute", "ok", 0, 0),
               Set("graphdb_connection_error_status", NoLabel, 1),
               Return >>

GetGraphdbConnectionErrorStatus ==
    /\ \E probe \in ProbeAnswers :
       \E ops \in { get_graphdb_connection_error_status(probe) } :
          /\ registry' = ApplyOps(registry, ops)
          /\ call' = Invocation("get_graphdb_connection_error_status",
                                SCRAPE_COUNT, now, prom, ops)
    /\ UNCHANGED <<now, tz, SCRAPE_COUNT, prom, evaluated_at, unsolved_history>>

-----------------------------------------------------------------------------
(* DBMetrics.set_is_corrupted_metric *)

\* cls.graph().is_database_corrupted(): it raises, or returns a boolean.
CorruptedAnswers == { Answer(TRUE, FALSE), Answer(FALSE, FALSE), Answer(FALSE, TRUE) }

\* Mutant of set_is_corrupted_metric: the gauge is incremented, not set.
set_is_corrupted_metric_Increments(corrupted) ==
    << Call("graph.is_database_corrupted", "") >>
    \o IF corrupted.raised
       THEN << Raise("graph.is_database_corrupted") >>
       ELSE << Result("graph.is_database_corrupted", "boolean",
                      IF corrupted.val THEN 1 ELSE 0, 0),
               Inc("graphdb_is_corrupted", NoLabel, IF corrupted.val THEN 1 ELSE 0),
               Return >>

\* Lines 105-108: the call is not protected.
set_is_corrupted_metric(corrupted) ==
    << Call("graph.is_database_corrupted", "") >>
    \o IF corrupted.raised
       THEN << Raise("graph.is_database_corrupted") >>
       ELSE << Result("graph.is_database_corrupted", "boolean",
                      IF corrupted.val THEN 1 ELSE 0, 0),
               Set("graphdb_is_corrupted", NoLabel, IF corrupted.val THEN 1 ELSE 0),
               Return >>

SetIsCorruptedMetric ==
    /\ \E corrupted \in CorruptedAnswers :
       \E ops \in { set_is_corrupted_metric(corrupted) } :
          /\ registry' = ApplyOps(registry, ops)
          /\ call' = Invocation("set_is_corrupted_metric", SCRAPE_COUNT, now, prom, ops)
    /\ UNCHANGED <<now, tz, SCRAPE_COUNT, prom, evaluated_at, unsolved_history>>

-----------------------------------------------------------------------------
(* SolverMetrics.get_solver_count *)

\* Lines 49-52: the listing is not protected.
get_solver_count(solvers) ==
    Listing(solvers)
    \o IF solvers.raised THEN <<>>
       ELSE << Set("graphdb_total_number_solvers", NoLabel, Len(solvers.val)),
               Log("debug", "graphdb_total_number_solvers"),
               Return >>

GetSolverCount ==
    /\ \E solvers \in SolverNamesAnswers :
       \E ops \in { get_solver_count(solvers) } :
          /\ registry' = ApplyOps(registry, ops)
          /\ call' = Invocation("get_solver_count", SCRAPE_COUNT, now, prom, ops)
    /\ UNCHANGED <<now, tz, SCRAPE_COUNT, prom, evaluated_at, unsolved_history>>

-----------------------------------------------------------------------------
(* Environment: the clock, the metrics backend, the process *)

QueriedMetrics ==
    { "thoth_graphdb_last_evaluation_bloat_data",
      "thoth_graphdb_total_number_unsolved_python_packages" }

Tick ==
    /\ \E t \in Instants : t > now /\ now' = t
    /\ UNCHANGED <<tz, SCRAPE_COUNT, registry, prom, call, evaluated_at, unsolved_history>>

\* The backend scrapes the exporter: it stores the current value of the gauge.
ScrapeBloat ==
    /\ prom' = [prom EXCEPT ![BloatMetric] =
                  << Sample(now, Value(registry, "graphdb_last_evaluation_bloat_data", NoLabel)) >>]
    /\ UNCHANGED <<now, tz, SCRAPE_COUNT, registry, call, evaluated_at, unsolved_history>>

\* The backend scrapes the exporter: it stores the current absolute unsolved count.
ScrapeUnsolved ==
    /\ prom' = [prom EXCEPT ![UnsolvedMetric] =
                  << Sample(now, Value(registry, "graphdb_total_number_unsolved_python_packages", NoLabel)) >>]
    /\ UNCHANGED <<now, tz, SCRAPE_COUNT, registry, call, evaluated_at, unsolved_history>>

\* The process restarts: class attributes and the registry are fresh (the change
\* counter is 0 again, and so is the shrinkage it is compared with), the backend
\* keeps what it stored.
Restart ==
    /\ SCRAPE_COUNT' = 0
    /\ registry' = FreshRegistry
    /\ call' = Invocation("restart", 0, now, prom, <<>>)
    /\ unsolved_history' = [unsolved_history EXCEPT !.shrunk = 0]
    /\ UNCHANGED <<now, tz, prom, evaluated_at>>

-----------------------------------------------------------------------------
(* Specifications *)

\* What the backend may hold at process start: nothing, or a sample it stored at
\* an earlier instant ts of the gauge of an earlier process (0 before that
\* process evaluated, else the timestamp it wrote at an instant up to ts).
InitialSamples(t, off) ==
    { <<>> } \cup
    { << Sample(ts, v) >> :
        ts \in { i \in Instants : i <= t },
        v \in {0} \cup { EvaluationTimestamp(i, off) : i \in Instants } }

Init ==
    /\ now \in Instants
    /\ tz \in TZOffsets
    /\ SCRAPE_COUNT = 0
    /\ registry = FreshRegistry
    /\ prom \in [QueriedMetrics -> InitialSamples(now, tz)]
    /\ prom[BloatMetric] # <<>> =>
          \/ prom[BloatMetric][1].value = 0
          \/ prom[BloatMetric][1].value <= EvaluationTimestamp(prom[BloatMetric][1].ts, tz)
    /\ prom[UnsolvedMetric] = <<>>
    /\ call = [job |-> "start", turn |-> 0, scrape_count |-> 0, now |-> now,
               backend |-> prom, ops |-> <<>>, repeat |-> FALSE]
    /\ evaluated_at = <<>>
    /\ unsolved_history = [last |-> <<>>, shrunk |-> 0]

NextDB == GetBloatData \/ ScrapeBloat \/ Tick \/ Restart

SpecDB == Init /\ [][NextDB]_vars

\* The solver jobs read neither the clock nor the evaluation-timestamp series:
\* their runs start from one instant, one zone and no such series.
InitSolver == Init /\ now = 0 /\ tz = 0 /\ prom[BloatMetric] = <<>>

\* The delta job with the backend's scrapes of its gauge and restarts.
NextDelta == GetUnsolvedPythonPackagesVersions \/ ScrapeUnsolved \/ Restart

SpecDelta == InitSolver /\ [][NextDelta]_vars

\* The delta job observed: the same, with the history of the computed counts.
NextShrink == GetUnsolvedPythonPackagesVersionsObserved \/ ScrapeUnsolved \/ Restart

SpecShrink == InitSolver /\ [][NextShrink]_vars

\* The per-solver fan-out jobs.
NextFanOut == GetPythonPackagesSolvedCountPerSolver \/ Restart

SpecFanOut == InitSolver /\ [][NextFanOut]_vars

\* The error decomposition job.
NextErrors == GetPythonPackagesSolverErrorCountPerSolver \/ Restart

SpecErrors == InitSolver /\ [][NextErrors]_vars

\* The jobs that publish one gauge each: health check, corruption flag, solver count.
NextStatus ==
    GetGraphdbConnectionErrorStatus \/ SetIsCorruptedMetric \/ GetSolverCount \/ Restart

SpecStatus == InitSolver /\ [][NextStatus]_vars

\* A process life in which only this job is invoked.
OneJobLife(job) == call.job \in {"start", "restart", job}

\* The stateless jobs, each invoked repeatedly in a process life of its own
\* (they write disjoint metrics).
NextRepeat ==
    \/ OneJobLife("get_graphdb_connection_error_status") /\ GetGraphdbConnectionErrorStatus
    \/ OneJobLife("set_is_corrupted_metric") /\ SetIsCorruptedMetric
    \/ OneJobLife("get_solver_count") /\ GetSolverCount
    \/ OneJobLife("get_python_packages_solved_count_per_solver")
          /\ GetPythonPackagesSolvedCountPerSolver
    \/ OneJobLife("get_python_packages_solver_error_count_per_solver")
          /\ GetPythonPackagesSolverErrorCountPerSolver
    \/ Restart

SpecRepeat == InitSolver /\ [][NextRepeat]_vars

Next == NextDB \/ NextDelta \/ NextFanOut \/ NextErrors \/ NextStatus

Spec == Init /\ [][Next]_vars

-----------------------------------------------------------------------------
(* Reading an invocation record *)

\* The invocation performed an operation of this kind and name.
Did(ops, kind, name) ==
    \E i \in 1..Len(ops) : ops[i].op = kind /\ ops[i].name = name

\* The invocation got this kind of answer from call fn.
Got(ops, fn, kind) ==
    \E i \in 1..Len(ops) : ops[i].op = "result" /\ ops[i].name = fn /\ ops[i].label = kind

\* The invocation wrote a metric (set or inc).
Wrote(ops) == \E i \in 1..Len(ops) : ops[i].op \in {"set", "inc"}

\* The invocation queried the bloat data: the expensive evaluation was performed.
Evaluated(c) == Did(c.ops, "call", "graph.get_bloat_data")

\* The read-back of the invocation returned a sample with this elapsed time
\* (last_scrape_timestamp - last_evaluation_timestamp).
ReadBackElapsed(c, e) ==
    \E i \in 1..Len(c.ops) :
        /\ c.ops[i].op = "result"
        /\ c.ops[i].name = "prom.get_current_metric_value"
        /\ c.ops[i].label = "sample"
        /\ c.ops[i].aux - c.ops[i].value = e

Interval == total_seconds(BLOAT_DATA_SCRAPE_INTERVAL_DAYS)

ElapsedValues == { ts - v : ts \in Instants, v \in Instants \cup { i - o : i \in Instants, o \in TZOffsets } }

IsBloatCall(c) == c.job = "get_bloat_data"

\* The step is a job invocation (or a restart): call' describes it.  Only an
\* invocation changes the record or the registry; a stateless job invoked a
\* third time with the same answers leaves the record as it is.
JobStep == call' # call \/ registry' # registry

-----------------------------------------------------------------------------
(* C1 - C6: the throttle of get_bloat_data *)

\* C1: an invocation of get_bloat_data entered with _SCRAPE_COUNT = 0 performs
\* the bloat query, whatever the backend holds for the evaluation-timestamp
\* metric (any sample, or none).
C1_Bootstrap ==
    (IsBloatCall(call) /\ call.scrape_count = 0) => Evaluated(call)

\* Reached: a first invocation that evaluated although the backend held a sample
\* whose elapsed time is within the interval.
C1_Witness ==
    /\ IsBloatCall(call) /\ call.scrape_count = 0
    /\ call.backend[BloatMetric] # <<>>
    /\ call.backend[BloatMetric][1].ts - call.backend[BloatMetric][1].value <= Interval
    /\ Evaluated(call)

\* C2: an invocation entered with _SCRAPE_COUNT > 0 whose read-back gives
\* elapsed <= interval (the boundary included) does not query the bloat data and
\* leaves the evaluation-timestamp gauge, both bloat vectors and _SCRAPE_COUNT
\* as they were.
C2_Skip ==
    [][ (/\ JobStep /\ IsBloatCall(call') /\ call'.scrape_count > 0
         /\ \E e \in ElapsedValues : e <= Interval /\ ReadBackElapsed(call', e))
        => (/\ ~ Evaluated(call')
            /\ registry'["graphdb_last_evaluation_bloat_data"]
                 = registry["graphdb_last_evaluation_bloat_data"]
            /\ registry'["graphdb_pct_bloat_data_table"] = registry["graphdb_pct_bloat_data_table"]
            /\ registry'["graphdb_mb_bloat_data_table"] = registry["graphdb_mb_bloat_data_table"]
            /\ SCRAPE_COUNT' = SCRAPE_COUNT) ]_vars

\* Reached: a skip at the boundary elapsed = interval.
C2_Witness ==
    /\ IsBloatCall(call) /\ call.scrape_count > 0
    /\ ReadBackElapsed(call, Interval)
    /\ ~ Evaluated(call)
    /\ call.ops[Len(call.ops)].op = "return"

\* C3 as stated: an invocation whose read-back gives elapsed > interval performs
\* the evaluation and leaves the evaluation-timestamp gauge at the current time
\* of the invocation.
C3_Fire_AsStated ==
    (/\ IsBloatCall(call)
     /\ \E e \in ElapsedValues : e > Interval /\ ReadBackElapsed(call, e))
    => (/\ Evaluated(call)
        /\ Value(registry, "graphdb_last_evaluation_bloat_data", NoLabel) = call.now)

\* C4 as stated: no two completed evaluations are less than the interval apart,
\* over invocations, backend scrapes and restarts.
C4_AtMostOncePerInterval_AsStated ==
    [][ (JobStep /\ SCRAPE_COUNT' = SCRAPE_COUNT + 1 /\ evaluated_at # <<>>)
        => now - evaluated_at[1] >= Interval ]_vars

\* C5: an invocation that consults the read-back and gets no series logs a
\* warning and returns: no bloat query, no metric write, _SCRAPE_COUNT unchanged.
C5_NoData ==
    [][ (/\ JobStep /\ IsBloatCall(call')
         /\ Got(call'.ops, "prom.get_current_metric_value", "empty"))
        => (/\ Did(call'.ops, "log", "warning")
            /\ ~ Evaluated(call')
            /\ ~ Wrote(call'.ops)
            /\ ~ Raised(call'.ops)
            /\ registry' = registry
            /\ SCRAPE_COUNT' = SCRAPE_COUNT) ]_vars

\* Reached: a later invocation of a process that found no series.
C5_Witness ==
    /\ IsBloatCall(call) /\ call.scrape_count > 0
    /\ Got(call.ops, "prom.get_current_metric_value", "empty")
    /\ Did(call.ops, "log", "warning")
    /\ SCRAPE_COUNT = call.scrape_count

\* C6 as stated: with no sample in the backend the evaluation is performed
\* whatever _SCRAPE_COUNT is.
C6_ColdStart_AsStated ==
    (IsBloatCall(call) /\ call.backend[BloatMetric] = <<>>) => Evaluated(call)

\* C6 amended: with no sample in the backend the evaluation is performed exactly
\* when _SCRAPE_COUNT = 0; with _SCRAPE_COUNT > 0 the invocation does not evaluate.
C6_ColdStart ==
    (IsBloatCall(call) /\ call.backend[BloatMetric] = <<>>)
    => (Evaluated(call) <=> call.scrape_count = 0)

\* Reached: an invocation with _SCRAPE_COUNT > 0 and an empty backend that did
\* not evaluate.
C6_Witness ==
    /\ IsBloatCall(call) /\ call.backend[BloatMetric] = <<>>
    /\ call.scrape_count > 0
    /\ ~ Evaluated(call)
    /\ ~ Raised(call.ops)

-----------------------------------------------------------------------------
(* C7 - C8: the delta of get_unsolved_python_packages_versions *)

IsUnsolvedCall(c) == c.job = "get_unsolved_python_packages_versions"

\* The index of the first operation of this kind and name in ops, 0 if none.
IndexOf(ops, kind, name) ==
    IF Did(ops, kind, name)
    THEN CHOOSE i \in 1..Len(ops) :
            /\ ops[i].op = kind /\ ops[i].name = name
            /\ \A j \in 1..(i - 1) : ~ (ops[j].op = kind /\ ops[j].name = name)
    ELSE 0

\* The sum of the values of the operations of this kind and name.
RECURSIVE SumOfFirst(_, _, _, _)
SumOfFirst(ops, n, kind, name) ==
    IF n = 0 THEN 0
    ELSE SumOfFirst(ops, n - 1, kind, name)
         + (IF ops[n].op = kind /\ ops[n].name = name THEN ops[n].value ELSE 0)

SumOf(ops, kind, name) == SumOfFirst(ops, Len(ops), kind, name)

\* P: the previous absolute value the invocation read back.
PreviousValue(c) == c.ops[IndexOf(c.ops, "result", "prom.get_current_metric_value")].value

\* C: the sum of the counts the graph returned to the invocation.
CurrentCount(c) == SumOf(c.ops, "result", "graph.get_unsolved_python_package_versions_count_all")

TotalUnsolved == Value(registry, "graphdb_total_number_unsolved_python_packages", NoLabel)

Max0(x) == IF x > 0 THEN x ELSE 0

\* C7: an invocation that reads back a previous value P and sums the current
\* count C increments the change counter by exactly max(0, P - C), never by a
\* negative amount, and reads P back before it overwrites the absolute gauge
\* with C; previous 100 and current 80 give 20, previous 80 and current 100 give 0.
C7_Delta ==
    /\ UnsolvedChange(100, 80) = 20
    /\ UnsolvedChange(80, 100) = 0
    /\ [][ (/\ JobStep /\ IsUnsolvedCall(call')
            /\ Got(call'.ops, "prom.get_current_metric_value", "sample"))
           => (/\ ChangeCounter' = ChangeCounter + Max0(PreviousValue(call') - CurrentCount(call'))
               /\ ChangeCounter' >= ChangeCounter
               /\ \A i \in 1..Len(call'.ops) : call'.ops[i].op = "inc" => call'.ops[i].value >= 0
               /\ TotalUnsolved' = CurrentCount(call')
               /\ IndexOf(call'.ops, "result", "prom.get_current_metric_value")
                    < IndexOf(call'.ops, "set", "graphdb_total_number_unsolved_python_packages")) ]_vars

\* Reached: an invocation that read back a value above the current count and
\* incremented the counter by the difference.
C7_Witness ==
    /\ IsUnsolvedCall(call)
    /\ Got(call.ops, "prom.get_current_metric_value", "sample")
    /\ PreviousValue(call) > CurrentCount(call)
    /\ SumOf(call.ops, "inc", "graphdb_unsolved_python_package_versions_change")
         = PreviousValue(call) - CurrentCount(call)
    /\ ChangeCounter > 0

\* C8: an invocation whose read-back returns nothing makes no increment of the
\* change counter (none at all, not one by 0) and still sets the absolute gauge
\* to the current summed count.
C8_NoBaseline ==
    [][ (/\ JobStep /\ IsUnsolvedCall(call')
         /\ Got(call'.ops, "prom.get_current_metric_value", "empty"))
        => (/\ ~ Did(call'.ops, "inc", "graphdb_unsolved_python_package_versions_change")
            /\ ChangeCounter' = ChangeCounter
            /\ Did(call'.ops, "set", "graphdb_total_number_unsolved_python_packages")
            /\ TotalUnsolved' = CurrentCount(call')) ]_vars

\* Reached: an invocation without a baseline that published a positive count.
C8_Witness ==
    /\ IsUnsolvedCall(call)
    /\ Got(call.ops, "prom.get_current_metric_value", "empty")
    /\ CurrentCount(call) > 0
    /\ TotalUnsolved = CurrentCount(call)

-----------------------------------------------------------------------------
(* C9 - C10: the per-solver jobs *)

FanOutJobs ==
    { "get_unsolved_python_packages_versions",
      "get_python_packages_solved_count_per_solver",
      "get_python_packages_solver_error_count_per_solver" }

GraphQueries ==
    { "graph.get_unsolved_python_package_versions_count_all",
      "graph.get_solved_python_packages_count_all",
      "graph.get_error_solved_python_package_versions_count_all" }

\* The solvers the listing of the invocation returned.
Listed(ops) == { ops[i].label : i \in { j \in 1..Len(ops) : ops[j].op = "item" } }

\* The solvers a graph query of the invocation failed for.
Failed(ops) ==
    { SolverOf(ops[i].label) :
        i \in { j \in 1..(Len(ops) - 1) :
                  /\ ops[j].op = "call" /\ ops[j].name \in GraphQueries
                  /\ ops[j + 1].op = "raise" } }

\* The solvers the invocation published a value for.
Published(ops) == { ops[i].label : i \in { j \in 1..Len(ops) : ops[j].op = "set" /\ ops[j].label # NoLabel } }

\* C9 as stated: when the query fails for exactly one of the N listed solvers
\* (N >= 2, so that there are others), the job does not abort and the values of
\* the other N-1 listed solvers are published in that invocation.
C9_FanOutIsolation_AsStated ==
    (/\ call.job \in FanOutJobs
     /\ Cardinality(Listed(call.ops)) >= 2
     /\ Cardinality(Failed(call.ops)) = 1)
    => (/\ ~ Raised(call.ops)
        /\ (Listed(call.ops) \ Failed(call.ops)) \subseteq Published(call.ops))

IsErrorsCall(c) == c.job = "get_python_packages_solver_error_count_per_solver"

\* What the k-th error query of the invocation returned for the solver.
Returned(ops, solver_name, k) ==
    LET arg == QueryArg(parse_python_solver_name(solver_name))
        i == CHOOSE j \in 1..Len(ops) :
                /\ ops[j].op = "result" /\ ops[j].name = ErrorQueryFn(k)
                /\ ops[j].label = arg /\ ops[j].aux = ErrorQueryFlag(k)
    IN ops[i].value

\* C10 as stated: for every solver the job publishes solved - solved_with_error
\* as "solved with no error" (50 and 5 give 45), and the published value is
\* never negative, whatever the two counts are.
C10_ErrorDecomposition_AsStated ==
    /\ solved_with_no_error(50, 5) = 45
    /\ IsErrorsCall(call) =>
         \A n \in Published(call.ops) :
            LET v == Value(registry, "graphdb_total_python_packages_solved_with_no_error", n)
            IN /\ v = Returned(call.ops, n, 1) - Returned(call.ops, n, 2)
               /\ v >= 0

-----------------------------------------------------------------------------
(* C11, C19: exceptions and the job body *)

\* The jobs of DBMetrics and SolverMetrics.
Jobs ==
    FanOutJobs \cup
    { "get_bloat_data", "get_graphdb_connection_error_status",
      "set_is_corrupted_metric", "get_solver_count" }

\* C11 as stated: whatever external call fails, the invocation of a job returns
\* normally: no exception leaves the job body.
C11_LocalRecovery_AsStated ==
    call.job \in Jobs => ~ Raised(call.ops)

IsHealthCall(c) == c.job = "get_graphdb_connection_error_status"

ConnectionStatus == Value(registry, "graphdb_connection_error_status", NoLabel)

-----------------------------------------------------------------------------
(* C12 - C13: failures and the published values *)

\* An external call of the invocation failed: its exception left the body, or
\* was caught in it.
Failure(ops) ==
    \/ Raised(ops)
    \/ \E i \in 1..Len(ops) : ops[i].op = "result" /\ ops[i].label = "exception"

\* C12 as stated: when an external call fails during an invocation of a job,
\* every metric keeps the value it had before the invocation: none is zeroed,
\* none is partially updated.
C12_StaleButPresent_AsStated ==
    [][ (JobStep /\ call'.job \in Jobs /\ Failure(call'.ops))
        => registry' = registry ]_vars

\* C13: the change counter after an invocation of
\* get_unsolved_python_packages_versions is never lower than before it, whatever
\* is read back (a value above, below or equal to the current count, or nothing).
C13_CounterMonotonic ==
    [][ (JobStep /\ IsUnsolvedCall(call')) => ChangeCounter' >= ChangeCounter ]_vars

\* Reached: an invocation that read back a value below the current count (the
\* unsolved count grew) and left a counter that had been incremented before as
\* it was.
C13_Witness ==
    /\ IsUnsolvedCall(call)
    /\ Got(call.ops, "prom.get_current_metric_value", "sample")
    /\ PreviousValue(call) < CurrentCount(call)
    /\ Did(call.ops, "inc", "graphdb_unsolved_python_package_versions_change")
    /\ SumOf(call.ops, "inc", "graphdb_unsolved_python_package_versions_change") = 0
    /\ ChangeCounter > 0

-----------------------------------------------------------------------------
(* C14: idempotence of the stateless jobs *)

\* C14: when a stateless job (get_solver_count,
\* get_python_packages_solved_count_per_solver,
\* get_python_packages_solver_error_count_per_solver, set_is_corrupted_metric,
\* get_graphdb_connection_error_status) is invoked right after an invocation of
\* the same job that saw the same external data, the registry after the second
\* invocation equals the registry after the first.
C14_Idempotence ==
    [][ (/\ JobStep /\ call'.job \in StatelessJobs
         /\ call.job = call'.job
         /\ Observed(call.ops) = Observed(call'.ops))
        => registry' = registry ]_vars

\* Reached: a second invocation in a row of the error-count job that saw the
\* same answers as the first and had published values for two solvers.
C14_Witness ==
    /\ IsErrorsCall(call)
    /\ call.repeat
    /\ Cardinality(Published(call.ops)) = 2
    /\ \E n \in Published(call.ops) :
          Value(registry, "graphdb_total_python_packages_with_solver_error", n) > 0

-----------------------------------------------------------------------------
(* C15: what a scraper reads during an invocation *)

\* The gauges published together for one solver, and for one table.
ErrorGauges ==
    << "graphdb_total_python_packages_solved_with_no_error",
       "graphdb_total_python_packages_with_solver_error",
       "graphdb_total_python_packages_with_solver_error_unparseable",
       "graphdb_total_python_packages_with_solver_error_unsolvable" >>

BloatGauges == << "graphdb_pct_bloat_data_table", "graphdb_mb_bloat_data_table" >>

\* What a scraper reads of the gauges for label l: per gauge the value of the
\* child, or nothing when the child does not exist.
Reading(reg, gauges, l) ==
    [i \in 1..Len(gauges) |->
        IF l \in DOMAIN reg[gauges[i]] THEN << reg[gauges[i]][l] >> ELSE << >>]

\* C15 as stated: whatever the point of an invocation at which a scraper reads
\* the registry, the four error gauges of a solver, and the two bloat gauges of
\* a table, read either all as before the invocation or all as after it.
C15_AtomicPublication_AsStated ==
    [][ (JobStep /\ (IsErrorsCall(call') \/ IsBloatCall(call')))
        => \A view \in ScraperViews(registry, call'.ops) :
              /\ \A n \in SolverNames :
                    Reading(view, ErrorGauges, n)
                      \in { Reading(registry, ErrorGauges, n), Reading(registry', ErrorGauges, n) }
              /\ \A t \in TableNames :
                    Reading(view, BloatGauges, t)
                      \in { Reading(registry, BloatGauges, t), Reading(registry', BloatGauges, t) } ]_vars

-----------------------------------------------------------------------------
(* C16, C18: the bloat evaluation and _SCRAPE_COUNT *)

\* The bloat query of the invocation returned an empty list.
EmptyBloatResult(c) ==
    \E i \in 1..Len(c.ops) :
        /\ c.ops[i].op = "result" /\ c.ops[i].name = "graph.get_bloat_data"
        /\ c.ops[i].label = "rows" /\ c.ops[i].value = 0

\* The registry holds the two sentinel children, both at 0.
SentinelsPublished(reg) ==
    /\ "No table pct" \in DOMAIN reg["graphdb_pct_bloat_data_table"]
    /\ reg["graphdb_pct_bloat_data_table"]["No table pct"] = 0
    /\ "No table mb" \in DOMAIN reg["graphdb_mb_bloat_data_table"]
    /\ reg["graphdb_mb_bloat_data_table"]["No table mb"] = 0

EvaluationGauge == Value(registry, "graphdb_last_evaluation_bloat_data", NoLabel)

\* C16 as stated: when the evaluation runs and the bloat query returns an empty
\* list, the invocation publishes 0 under 'No table pct' and 'No table mb',
\* sets the evaluation timestamp to the current time and increments
\* _SCRAPE_COUNT; unlike an invocation whose bloat query raised, it returns
\* normally and has written.
C16_NoDataBloat_AsStated ==
    (IsBloatCall(call) /\ EmptyBloatResult(call))
    => (/\ SentinelsPublished(registry)
        /\ EvaluationGauge = call.now
        /\ SCRAPE_COUNT = call.scrape_count + 1
        /\ ~ Raised(call.ops)
        /\ Wrote(call.ops))

\* The same with the evaluation timestamp as the code computes it
\* (datetime.utcnow().timestamp(), see C3): what holds of C16 apart from C3.
C16_NoDataBloat_ApartFromC3 ==
    (IsBloatCall(call) /\ EmptyBloatResult(call))
    => (/\ SentinelsPublished(registry)
        /\ EvaluationGauge = EvaluationTimestamp(call.now, tz)
        /\ SCRAPE_COUNT = call.scrape_count + 1
        /\ ~ Raised(call.ops)
        /\ Wrote(call.ops))

\* The invocation wrote the evaluation timestamp: it completed the evaluation.
WroteTimestamp(c) == Did(c.ops, "set", "graphdb_last_evaluation_bloat_data")

\* C18: _SCRAPE_COUNT is never negative and counts the invocations of
\* get_bloat_data of this process that completed the evaluation: it is 0 when
\* the process starts or restarts, an invocation increments it by exactly 1
\* exactly when it wrote the evaluation timestamp and leaves it unchanged when
\* it skipped (interval not elapsed), found no series or its bloat query raised,
\* and nothing else changes it.
C18_ScrapeCount ==
    /\ SCRAPE_COUNT = 0
    /\ [] (SCRAPE_COUNT >= 0)
    /\ [][ /\ (JobStep /\ IsBloatCall(call'))
              => /\ WroteTimestamp(call') => SCRAPE_COUNT' = SCRAPE_COUNT + 1
                 /\ ~ WroteTimestamp(call') => SCRAPE_COUNT' = SCRAPE_COUNT
                 /\ (\/ ~ Evaluated(call')
                     \/ Got(call'.ops, "prom.get_current_metric_value", "empty")
                     \/ Raised(call'.ops))
                    => (~ WroteTimestamp(call') /\ SCRAPE_COUNT' = SCRAPE_COUNT)
           /\ (JobStep /\ call'.job = "restart") => SCRAPE_COUNT' = 0
           /\ ~ (JobStep /\ (IsBloatCall(call') \/ call'.job = "restart"))
              => SCRAPE_COUNT' = SCRAPE_COUNT ]_vars

\* Reached: after one completed evaluation (_SCRAPE_COUNT = 1) an invocation
\* found the interval elapsed, its bloat query raised, and _SCRAPE_COUNT is
\* still 1.
C18_Witness ==
    /\ IsBloatCall(call) /\ call.scrape_count = 1
    /\ Evaluated(call) /\ Raised(call.ops)
    /\ ~ WroteTimestamp(call)
    /\ SCRAPE_COUNT = 1

-----------------------------------------------------------------------------
(* C17: the change counter and the shrinkage of the unsolved count *)

\* C17 as stated: whatever the interleaving of invocations and backend scrapes,
\* what the process added to the change counter never exceeds the sum of the
\* decreases between consecutively computed current counts: a shrink is counted
\* at most once.
C17_NoDoubleCounting_AsStated ==
    ChangeCounter <= unsolved_history.shrunk

====
